---- MODULE Spec2Model ----
(***************************************************************************)
(* Open Pixel Control codec of opc-rs (src/lib.rs): the Message model, the *)
(* encoder Client::send writing through a BufWriter, and the frame decoder *)
(* Server::receive reading through a BufReader.                            *)
(*                                                                         *)
(* Bytes are naturals 0..255, byte strings are sequences of bytes.  The    *)
(* byte sink of the Client is the byte source of the Server: `source` is   *)
(* the part of the stream the Server's BufReader has not read yet.         *)
(* Widths and capacities are those of the source (u8, u16, 0xffff).        *)
(*                                                                         *)
(* Four specifications share the state machine:                            *)
(*   Spec      - streams of small frames, from the Client and from a peer, *)
(*               read in chunks of any size, with failing reads;           *)
(*   SpecLarge - payloads at the limits of the length field and of the     *)
(*               buffers, over a sink that may cut a direct write short;   *)
(*   SpecFail  - sends over a sink whose calls may fail;                   *)
(*   SpecQuery - callers asking len(), is_valid() and is_broadcast().      *)
(***************************************************************************)
EXTENDS Integers, Sequences, FiniteSets, TLC

VARIABLES
    wbuf,       \* Client.writer: bytes held in the BufWriter's buffer
    source,     \* bytes written to the sink and not yet read by Server.reader
    eof,        \* the producing side has closed the stream
    rbuf,       \* Server.reader: buffered, unconsumed bytes (buf[pos..cap])
    delivered,  \* the Messages passed to Device::read_msg, in call order
    outcome,    \* how the last receive call ended (NoOutcome, OkOutcome, ..)
    preLen,     \* length of the slice fill_buf returned to the last receive
    preHead,    \* history: the first (at most 4) bytes of that slice
    handed,     \* history: read_msg invocations made by the last receive
    consumed,   \* bytes the last receive call consumed from the buffer
    log,        \* history: the frames appended to the stream, in order
    calls,      \* history: number of receive calls made
    skips,      \* history: number of caller skips made
    short,      \* history: some read returned less than the source could give
    ioErrors,   \* history: number of failed reads
    devResult   \* history: what read_msg returned to the last receive call

vars == <<wbuf, source, eof, rbuf, delivered, outcome, preLen, preHead,
          handed, consumed, log, calls, skips, short, ioErrors, devResult>>

---------------------------------------------------------------------------
(* Program constants                                                       *)

MAX_MESSAGE_SIZE == 65535
SYS_EXCLUSIVE == 255
SET_PIXEL_COLORS == 0
BROADCAST_CHANNEL == 0

\* u8 and u16 ranges: 2^8 and 2^16
U8Modulus == 256
U16Modulus == 65536

\* a pixel is [u8; 3]; the frame header is channel, command, u16 length
PixelSize == 3
HeaderSize == 4

---------------------------------------------------------------------------
(* Bounds of the model                                                     *)

\* frames appended to the stream in one behaviour of Spec
MaxFrames == 2
\* frames appended to the stream in one behaviour of SpecLarge
MaxLargeFrames == 1
\* a read may return any count 1..MaxShortRead (or all that is available)
MaxShortRead == 5
\* failed reads in one behaviour
MaxIoErrors == 1
\* receive calls in one behaviour
MaxCalls == 4
\* a direct write may be cut to any count 1..MaxShortWrite (or not at all)
MaxShortWrite == 1
\* the failing call on the sink is one of the first MaxSinkCalls of a send
MaxSinkCalls == 3
\* bytes a failing flush_buf wrote before the failure: 0..MaxPartial
MaxPartial == 1

---------------------------------------------------------------------------
(* Sequence helpers (non-recursive: payloads reach 65535 bytes)            *)

\* s[from..] with from counted from 0, as a Rust slice &s[from..]
DropFirst(s, n) == SubSeq(s, n + 1, Len(s))
\* s[..n]
TakeFirst(s, n) == SubSeq(s, 1, n)

Min(a, b) == IF a < b THEN a ELSE b

---------------------------------------------------------------------------
(* Message model                                                           *)

SetPixelColors(pixels) == [tag |-> "SetPixelColors", pixels |-> pixels]
SystemExclusive(id, data) == [tag |-> "SystemExclusive", id |-> id, data |-> data]
Message(ch, cmd) == [channel |-> ch, command |-> cmd]

\* Message::len
len(msg) ==
    IF msg.command.tag = "SetPixelColors"
    THEN Len(msg.command.pixels) * PixelSize
    ELSE Len(msg.command.data) + 2

\* is_valid with the limit itself left out
IsValidBelowLimit(msg) == len(msg) < MAX_MESSAGE_SIZE

\* Message::is_valid
is_valid(msg) == len(msg) <= MAX_MESSAGE_SIZE

\* is_broadcast taking the first strand for the broadcast channel as well
IsBroadcastUpToOne(msg) == msg.channel <= 1

\* Message::is_broadcast
is_broadcast(msg) == msg.channel = BROADCAST_CHANNEL

---------------------------------------------------------------------------
(* Encoder: Client::send over BufWriter::with_capacity(MAX_MESSAGE_SIZE)   *)

WriterCapacity == MAX_MESSAGE_SIZE

\* `ser_len as u16`: the cast keeps the low 16 bits
AsU16(n) == n % U16Modulus

\* WriteU16BE with the bytes in little-endian order
WriteU16LE(v) == <<v % U8Modulus, v \div U8Modulus>>

\* write_u16::<BigEndian>: most significant byte first
WriteU16BE(v) == <<v \div U8Modulus, v % U8Modulus>>

\* How a call ends (a send, a receive, or a call on the sink).
NoOutcome == [tag |-> "none"]
OkOutcome == [tag |-> "ok"]
ErrOutcome(kind, msg) == [tag |-> "err", kind |-> kind, msg |-> msg]

\* The byte sink W behind the BufWriter, as far as one send sees it:
\*   failAt  - which of the BufWriter's calls on the sink fails (0: none);
\*   kind    - the ErrorKind of that failure;
\*   partial - bytes the sink took inside the failing flush_buf before it
\*             failed;
\*   atMost  - bytes the sink takes from one direct write (0: all of them;
\*             Write::write may take fewer than it is given).
Sink(failAt, kind, partial, atMost) ==
    [failAt |-> failAt, kind |-> kind, partial |-> partial, atMost |-> atMost]

\* a sink that takes everything, as the tests' Vec
ReliableSink == Sink(0, "none", 0, 0)

\* A writer state: buf - bytes buffered; out - bytes the sink took; res -
\* Ok, or the error try! returned from send; raised - the error the sink
\* raised; ops - calls made on the sink; sink - the sink's behaviour.
Writer(buf, sink) ==
    [buf |-> buf, out |-> <<>>, res |-> OkOutcome, raised |-> NoOutcome,
     ops |-> 0, sink |-> sink]

\* the next call on the sink is the one that fails
SinkFails(w) == w.ops + 1 = w.sink.failAt

\* the error of the failing call
SinkError(w) == ErrOutcome(w.sink.kind, "write")

\* BufWriter::flush_buf: write the buffered bytes to the sink and drain what
\* was written; an empty buffer makes no call.  On a failure the bytes taken
\* so far are drained, the rest stays buffered.
FlushBuf(w) ==
    IF w.buf = <<>>
    THEN w
    ELSE IF SinkFails(w)
         THEN LET j == Min(w.sink.partial, Len(w.buf) - 1)
              IN  [w EXCEPT !.out = @ \o TakeFirst(w.buf, j),
                            !.buf = DropFirst(@, j),
                            !.res = SinkError(w),
                            !.raised = SinkError(w),
                            !.ops = @ + 1]
         ELSE [w EXCEPT !.out = @ \o w.buf, !.buf = <<>>, !.ops = @ + 1]

\* BufWriter::write of data as long as the capacity: one inner.write(data),
\* whose count the caller of write drops
DirectWrite(w, data) ==
    IF SinkFails(w)
    THEN [w EXCEPT !.res = SinkError(w), !.raised = SinkError(w), !.ops = @ + 1]
    ELSE LET n == IF w.sink.atMost = 0
                  THEN Len(data)
                  ELSE Min(w.sink.atMost, Len(data))
         IN  [w EXCEPT !.out = @ \o TakeFirst(data, n), !.ops = @ + 1]

\* try!(self.writer.write(data)): nothing once an earlier try! has returned.
\* BufWriter::write: flush first when the data does not fit behind what is
\* buffered; data of at least the capacity goes straight to the sink, the
\* rest is appended to the buffer.
BufWrite(w, data) ==
    IF w.res # OkOutcome
    THEN w
    ELSE LET f == IF Len(w.buf) + Len(data) > WriterCapacity
                  THEN FlushBuf(w)
                  ELSE w
         IN  IF f.res # OkOutcome
             THEN f
             ELSE IF Len(data) >= WriterCapacity
                  THEN DirectWrite(f, data)
                  ELSE [f EXCEPT !.buf = @ \o data]

\* BufFlush leaving the buffered bytes where they are
BufFlushNothing(w) == w

\* BufFlush going on to inner.flush() after a failed flush_buf
BufFlushIgnoringError(w) ==
    IF w.res # OkOutcome
    THEN w
    ELSE LET f == FlushBuf(w)
         IN  IF SinkFails(f)
             THEN [f EXCEPT !.res = SinkError(f), !.raised = SinkError(f),
                            !.ops = @ + 1]
             ELSE [f EXCEPT !.ops = @ + 1]

\* self.writer.flush(): BufWriter::flush is flush_buf, then inner.flush()
BufFlush(w) ==
    IF w.res # OkOutcome
    THEN w
    ELSE LET f == FlushBuf(w)
         IN  IF f.res # OkOutcome
             THEN f
             ELSE IF SinkFails(f)
                  THEN [f EXCEPT !.res = SinkError(f), !.raised = SinkError(f),
                                 !.ops = @ + 1]
                  ELSE [f EXCEPT !.ops = @ + 1]

\* the bytes of the pixels in sequence order, each pixel as R, G, B
PixelBytes(pixels) ==
    [i \in 1..(PixelSize * Len(pixels)) |->
        pixels[((i - 1) \div PixelSize) + 1][((i - 1) % PixelSize) + 1]] \o <<>>

\* `for pixel in pixels { try!(writer.write(pixel)) }`: every write is 3
\* bytes, so it appends to the buffer, after a flush_buf when 3 more bytes do
\* not fit.
\* fit: pixels written before the first flush; per: pixels per full buffer;
\* flushes: flush_buf calls of the whole loop; bad: which of them fails;
\* done: pixels written when the loop ends; held: bytes in the buffer when
\* the last flush_buf of the loop has run (or failed).
WritePixels(w, pixels) ==
    IF w.res # OkOutcome
    THEN w
    ELSE LET n       == Len(pixels)
             fit     == (WriterCapacity - Len(w.buf)) \div PixelSize
             per     == WriterCapacity \div PixelSize
             flushes == IF n <= fit THEN 0 ELSE 1 + ((n - fit - 1) \div per)
             bad     == w.sink.failAt - w.ops
             fails   == bad >= 1 /\ bad <= flushes
             done    == IF fails THEN fit + (bad - 1) * per ELSE n
             all     == w.buf \o PixelBytes(TakeFirst(pixels, done))
             full    == IF bad = 1 THEN Len(all) ELSE PixelSize * per
             held    == IF fails
                        THEN full - Min(w.sink.partial, full - 1)
                        ELSE IF n <= fit
                             THEN Len(all)
                             ELSE PixelSize * (((n - fit - 1) % per) + 1)
         IN  [w EXCEPT !.buf = DropFirst(all, Len(all) - held),
                       !.out = @ \o TakeFirst(all, Len(all) - held),
                       !.res = IF fails THEN SinkError(w) ELSE @,
                       !.raised = IF fails THEN SinkError(w) ELSE @,
                       !.ops = IF fails THEN w.sink.failAt ELSE @ + flushes]

\* Client::send: the writer state when send returns
SendWrites(w, msg) ==
    LET ser_len == len(msg)
    IN  IF msg.command.tag = "SetPixelColors"
        THEN LET w1 == BufWrite(w, <<msg.channel, SET_PIXEL_COLORS>>)
                 w2 == BufWrite(w1, WriteU16BE(AsU16(ser_len)))
                 w3 == WritePixels(w2, msg.command.pixels)
             IN  BufFlush(w3)
        ELSE LET w1 == BufWrite(w, <<msg.channel, SYS_EXCLUSIVE>>)
                 w2 == BufWrite(w1, WriteU16BE(AsU16(ser_len)))
                 w3 == BufWrite(w2, msg.command.id)
                 w4 == BufWrite(w3, msg.command.data)
             IN  BufFlush(w4)

---------------------------------------------------------------------------
(* Frame decoder: Server::receive over BufReader::with_capacity(...)       *)

\* ReaderCapacity with room for the header of the largest frame
ReaderCapacityOfFrame == MAX_MESSAGE_SIZE + HeaderSize

\* BufReader::with_capacity(MAX_MESSAGE_SIZE, reader)
ReaderCapacity == MAX_MESSAGE_SIZE

\* ReadU16BE with the bytes taken in little-endian order
ReadU16LE(hi, lo) == lo * U8Modulus + hi

\* BigEndian::read_u16(&buf[2..4])
ReadU16BE(hi, lo) == hi * U8Modulus + lo

\* PixelSpan giving the number of whole pixels instead of their bytes
PixelSpanAsCount(length) == length \div PixelSize

\* data[..(length - (length % 3))]: the bytes that form whole pixels
PixelSpan(length) == length - (length % PixelSize)

\* .chunks(3).map(|chunk| [chunk[0], chunk[1], chunk[2]]).collect()
Chunks3(d) ==
    [k \in 1..(Len(d) \div PixelSize) |->
        <<d[PixelSize * (k - 1) + 1],
          d[PixelSize * (k - 1) + 2],
          d[PixelSize * (k - 1) + 3]>>] \o <<>>

\* FrameSpan with the header left out of the count
FrameSpanNoHeader(length) == length

\* `length+4`: the bytes receive consumes after a delivery
FrameSpan(length) == length + HeaderSize

\* an index or slice out of range: the thread panics
PanicOutcome == [tag |-> "panic"]
\* Error::new(ErrorKind::InvalidData, "Invalid Message Command")
InvalidCommand == ErrOutcome("InvalidData", "Invalid Message Command")
\* the caller dropped a frame from the buffer (no receive outcome)
SkippedOutcome == [tag |-> "skipped"]

Parsed(o, msgs, n) == [outcome |-> o, msgs |-> msgs, consume |-> n]

\* ParseSysEx with a payload too short for the id reported like an unknown
\* command
ParseSysExAsInvalid(channel, length, data) ==
    IF length < 2
    THEN Parsed(InvalidCommand, <<>>, 0)
    ELSE Parsed(OkOutcome,
                <<Message(channel,
                          SystemExclusive(<<data[1], data[2]>>, DropFirst(data, 2)))>>,
                FrameSpan(length))

\* the SYS_EXCLUSIVE arm: data[0], data[1], &data[2..]
ParseSysEx(channel, length, data) ==
    IF length < 2
    THEN Parsed(PanicOutcome, <<>>, 0)
    ELSE Parsed(OkOutcome,
                <<Message(channel,
                          SystemExclusive(<<data[1], data[2]>>, DropFirst(data, 2)))>>,
                FrameSpan(length))

\* the SET_PIXEL_COLORS arm
ParsePixels(channel, length, data) ==
    Parsed(OkOutcome,
           <<Message(channel,
                     SetPixelColors(Chunks3(TakeFirst(data, PixelSpan(length)))))>>,
           FrameSpan(length))

\* Parse dropping the frame of an unknown command before it returns the
\* error
ParseSkippingUnknown(buf) ==
    IF Len(buf) < HeaderSize
    THEN Parsed(PanicOutcome, <<>>, 0)
    ELSE LET channel == buf[1]
             command == buf[2]
             length  == ReadU16BE(buf[3], buf[4])
         IN  IF length > Len(buf) - HeaderSize
             THEN Parsed(PanicOutcome, <<>>, 0)
             ELSE LET data == SubSeq(buf, HeaderSize + 1, HeaderSize + length)
                  IN  CASE command = SET_PIXEL_COLORS ->
                               ParsePixels(channel, length, data)
                        [] command = SYS_EXCLUSIVE ->
                               ParseSysEx(channel, length, data)
                        [] OTHER -> Parsed(InvalidCommand, <<>>, FrameSpan(length))

\* The block of receive that follows fill_buf, on the slice buf it returned.
\* `if buf.len() < 4 { () }` does nothing, so buf[0], buf[1], &buf[2..4] and
\* &buf[4..][..length] are evaluated on whatever is buffered.
Parse(buf) ==
    IF Len(buf) < HeaderSize
    THEN Parsed(PanicOutcome, <<>>, 0)
    ELSE LET channel == buf[1]
             command == buf[2]
             length  == ReadU16BE(buf[3], buf[4])
         IN  IF length > Len(buf) - HeaderSize
             THEN Parsed(PanicOutcome, <<>>, 0)
             ELSE LET data == SubSeq(buf, HeaderSize + 1, HeaderSize + length)
                  IN  CASE command = SET_PIXEL_COLORS ->
                               ParsePixels(channel, length, data)
                        [] command = SYS_EXCLUSIVE ->
                               ParseSysEx(channel, length, data)
                        [] OTHER -> Parsed(InvalidCommand, <<>>, 0)

\* ReadMsgStatement with try! around the call: a consumer error ends receive
ReadMsgTry(p, r) ==
    IF p.msgs # <<>> /\ r # OkOutcome
    THEN Parsed(r, p.msgs, 0)
    ELSE p

\* `output.read_msg(&Message {..});` is a statement: the Result r it returns
\* is dropped and receive goes on as parsed
ReadMsgStatement(p, r) == p

\* BufReader::consume(amt): pos = min(pos + amt, cap)
BufConsume(buf, amt) == DropFirst(buf, Min(amt, Len(buf)))

\* The byte counts the read inside fill_buf may return.  fill_buf reads only
\* when the buffer is empty: nothing at the end of a closed stream, otherwise
\* at least one byte and at most what is there and fits the buffer.  A read
\* of an open, empty stream blocks.
ReadCounts ==
    IF rbuf # <<>>
    THEN {0}
    ELSE IF source = <<>>
         THEN IF eof THEN {0} ELSE {}
         ELSE LET most == Min(Len(source), ReaderCapacity)
              IN  {Min(k, most) : k \in 1..MaxShortRead} \cup {most}

---------------------------------------------------------------------------
(* Inputs of the model                                                     *)

\* n pixels with varying colours
Pixels(n) ==
    [i \in 1..n |-> <<i % U8Modulus, (i \div U8Modulus) % U8Modulus, 7>>] \o <<>>
\* n data bytes
DataBytes(n) == [i \in 1..n |-> (i * 3) % U8Modulus] \o <<>>

TenNines == Message(4, SetPixelColors([i \in 1..10 |-> <<9, 9, 9>>]))
TenEights == Message(4, SystemExclusive(<<0, 0>>, [i \in 1..10 |-> 8]))

SmallMessages ==
    {TenNines,
     TenEights,
     Message(0, SetPixelColors(<<>>)),
     Message(255, SetPixelColors(<<<<1, 2, 3>>, <<4, 5, 6>>>>)),
     Message(0, SystemExclusive(<<1, 2>>, <<>>)),
     Message(255, SystemExclusive(<<255, 0>>, <<5, 6, 7>>))}

\* the pixel count and the data length of the largest valid payloads
MaxPixels == MAX_MESSAGE_SIZE \div PixelSize
MaxData == MAX_MESSAGE_SIZE - 2

\* a SystemExclusive whose data block is as long as the writer's buffer
WholeBufferData == Message(4, SystemExclusive(<<1, 2>>, DataBytes(WriterCapacity)))

\* the largest valid payloads and the smallest oversized ones
LargeMessages ==
    {Message(4, SetPixelColors(Pixels(MaxPixels))),
     Message(4, SystemExclusive(<<1, 2>>, DataBytes(MaxData))),
     Message(4, SetPixelColors(Pixels(MaxPixels + 1))),
     Message(4, SystemExclusive(<<1, 2>>, DataBytes(MaxData + 1))),
     WholeBufferData}

\* the Messages a caller inspects: every command of the model on the
\* broadcast channel, the first and the last strand, and the tests' channel
QueryChannels == {0, 1, 4, 255}
QueryMessages ==
    {Message(ch, m.command) :
        ch \in QueryChannels, m \in SmallMessages \cup LargeMessages}

\* frames of a peer that is not this Client
PeerFrames ==
    {<<4, 1, 0, 5, 10, 20, 30, 40, 50>>,     \* unknown command 0x01, length 5
     <<4, SYS_EXCLUSIVE, 0, 0>>,             \* SystemExclusive without id
     <<4, SYS_EXCLUSIVE, 0, 1, 7>>,          \* SystemExclusive with half an id
     <<4, SET_PIXEL_COLORS, 0, 5, 1, 2, 3, 4, 5>>,  \* a pixel and two bytes
     <<1, SET_PIXEL_COLORS, 0, 4, 6, 7, 8, 9>>}     \* a pixel and one byte

\* ErrorKind of a failed read (the reader's own io::Error)
ReaderErrorKinds == {"ConnectionReset", "InvalidData"}

\* ErrorKind of a failed call on the sink
WriterErrorKinds == {"BrokenPipe", "TimedOut"}

\* sinks that never fail but may cut a direct write short
ShortSinks ==
    {ReliableSink} \cup {Sink(0, "none", 0, k) : k \in 1..MaxShortWrite}

\* sinks that fail one call of a send
FailingSinks ==
    {Sink(f, kind, p, 0) :
        f \in 1..MaxSinkCalls, kind \in WriterErrorKinds, p \in 0..MaxPartial}

\* what Device::read_msg may return
DeviceResults == {OkOutcome, ErrOutcome("Other", "device")}

---------------------------------------------------------------------------
(* State machine                                                           *)

Init ==
    /\ wbuf = <<>>
    /\ source = <<>>
    /\ eof = FALSE
    /\ rbuf = <<>>
    /\ delivered = <<>>
    /\ outcome = NoOutcome
    /\ preLen = 0
    /\ preHead = <<>>
    /\ handed = 0
    /\ consumed = 0
    /\ log = <<>>
    /\ calls = 0
    /\ skips = 0
    /\ short = FALSE
    /\ ioErrors = 0
    /\ devResult = NoOutcome

\* Client::send(msg) on a writer over the given sink.  The log keeps the
\* Message, what send returned, the error the sink raised, which call on the
\* sink raised it and how many calls on the sink the send made.
send(msg, sink) ==
    /\ ~eof
    /\ LET w == SendWrites(Writer(wbuf, sink), msg)
       IN  /\ wbuf' = w.buf
           /\ source' = source \o w.out
           /\ log' = Append(log,
                 [by         |-> IF w.res = OkOutcome THEN "client" ELSE "client-error",
                  msg        |-> msg,
                  result     |-> w.res,
                  raised     |-> w.raised,
                  failedCall |-> IF w.raised = NoOutcome THEN 0 ELSE sink.failAt,
                  sinkCalls  |-> w.ops])
    /\ UNCHANGED <<eof, rbuf, delivered, outcome, preLen, preHead, handed,
                   consumed, calls, skips, short, ioErrors, devResult>>

\* a caller asks msg.len(), msg.is_valid() and msg.is_broadcast(); the log
\* keeps the answers with the channel, the variant and the number of pixels
\* or data bytes of msg
Inspect(msg) ==
    /\ log' = Append(log,
          [by        |-> "caller",
           channel   |-> msg.channel,
           tag       |-> msg.command.tag,
           items     |-> IF msg.command.tag = "SetPixelColors"
                         THEN Len(msg.command.pixels)
                         ELSE Len(msg.command.data),
           len       |-> len(msg),
           valid     |-> is_valid(msg),
           broadcast |-> is_broadcast(msg)])
    /\ UNCHANGED <<wbuf, source, eof, rbuf, delivered, outcome, preLen, preHead,
                   handed, consumed, calls, skips, short, ioErrors, devResult>>

\* another producer writes a frame to the stream
PeerWrite(frame) ==
    /\ ~eof
    /\ source' = source \o frame
    /\ log' = Append(log, [by |-> "peer", bytes |-> frame])
    /\ UNCHANGED <<wbuf, eof, rbuf, delivered, outcome, preLen, preHead,
                   handed, consumed, calls, skips, short, ioErrors, devResult>>

\* the producing side closes the stream
Close ==
    /\ ~eof
    /\ eof' = TRUE
    /\ UNCHANGED <<wbuf, source, rbuf, delivered, outcome, preLen, preHead,
                   handed, consumed, log, calls, skips, short, ioErrors,
                   devResult>>

\* Server::receive(output) when fill_buf succeeds, its read returning n bytes,
\* and read_msg, where it is called, returns r
receive(n, r) ==
    /\ outcome # PanicOutcome
    /\ calls < MaxCalls
    /\ LET buf == IF rbuf = <<>> THEN TakeFirst(source, n) ELSE rbuf
           p   == ReadMsgStatement(Parse(buf), r)
       IN  /\ source' = DropFirst(source, n)
           /\ devResult' = IF p.msgs = <<>> THEN NoOutcome ELSE r
           /\ short' = (short \/ (rbuf = <<>> /\ n < Min(Len(source), ReaderCapacity)))
           /\ preLen' = Len(buf)
           /\ preHead' = TakeFirst(buf, Min(HeaderSize, Len(buf)))
           /\ handed' = Len(p.msgs)
           /\ outcome' = p.outcome
           /\ delivered' = delivered \o p.msgs
           /\ consumed' = Min(p.consume, Len(buf))
           /\ rbuf' = BufConsume(buf, p.consume)
    /\ calls' = calls + 1
    /\ UNCHANGED <<wbuf, eof, log, skips, ioErrors>>

\* Server::receive(output) when the read inside fill_buf fails:
\* try! returns the error
ReceiveIoError(kind) ==
    /\ outcome # PanicOutcome
    /\ calls < MaxCalls
    /\ rbuf = <<>>
    /\ ioErrors < MaxIoErrors
    /\ outcome' = ErrOutcome(kind, "read")
    /\ preLen' = 0
    /\ preHead' = <<>>
    /\ handed' = 0
    /\ consumed' = 0
    /\ calls' = calls + 1
    /\ ioErrors' = ioErrors + 1
    /\ devResult' = NoOutcome
    /\ UNCHANGED <<wbuf, source, eof, rbuf, delivered, log, skips, short>>

\* After an InvalidCommand error the caller drops the frame the buffered
\* header announces: reader.consume(4 + length).
SkipFrame ==
    /\ outcome = InvalidCommand
    /\ rbuf' = BufConsume(rbuf, FrameSpan(ReadU16BE(rbuf[3], rbuf[4])))
    /\ outcome' = SkippedOutcome
    /\ skips' = skips + 1
    /\ UNCHANGED <<wbuf, source, eof, delivered, preLen, preHead, handed,
                   consumed, log, calls, short, ioErrors, devResult>>

\* streams of small frames
Next ==
    \/ /\ Len(log) < MaxFrames
       /\ \E msg \in SmallMessages : send(msg, ReliableSink)
    \/ /\ Len(log) < MaxFrames
       /\ \E frame \in PeerFrames : PeerWrite(frame)
    \/ Close
    \/ \E n \in ReadCounts, r \in DeviceResults : receive(n, r)
    \/ \E kind \in ReaderErrorKinds : ReceiveIoError(kind)
    \/ SkipFrame

Spec == Init /\ [][Next]_vars

\* frames at the limits of the length field and of the buffers, written
\* before the Server starts to read (as the tests do, through a Vec)
NextLarge ==
    \/ /\ Len(log) < MaxLargeFrames
       /\ calls = 0
       /\ \E msg \in LargeMessages \cup {TenNines, TenEights}, sink \in ShortSinks :
              send(msg, sink)
    \/ Close
    \/ \E n \in ReadCounts : receive(n, OkOutcome)
    \/ \E kind \in ReaderErrorKinds : ReceiveIoError(kind)

SpecLarge == Init /\ [][NextLarge]_vars

\* the messages sent over a failing sink: one whose pixel loop flushes, one
\* whose data goes straight to the sink, and the tests' two
FailMessages ==
    {Message(4, SetPixelColors(Pixels(MaxPixels))), WholeBufferData,
     TenNines, TenEights}

\* the read that returns all the source has (up to the buffer's capacity)
WholeRead == {n \in ReadCounts : \A m \in ReadCounts : m <= n}

\* no send has returned an error
NoSendFailed == \A i \in 1..Len(log) : log[i].by # "client-error"

\* sends over a sink that may fail, reads from a source that may fail; the
\* caller sends nothing more once a send has failed, and the source gives
\* all it has
NextFail ==
    \/ /\ Len(log) < MaxLargeFrames
       /\ calls = 0
       /\ NoSendFailed
       /\ \E msg \in FailMessages, sink \in {ReliableSink} \cup FailingSinks :
              send(msg, sink)
    \/ Close
    \/ \E n \in WholeRead : receive(n, OkOutcome)
    \/ \E kind \in ReaderErrorKinds : ReceiveIoError(kind)

SpecFail == Init /\ [][NextFail]_vars

\* callers inspecting Messages
NextQuery ==
    /\ Len(log) < MaxFrames
    /\ \E msg \in QueryMessages : Inspect(msg)

SpecQuery == Init /\ [][NextQuery]_vars

---------------------------------------------------------------------------
(* Vocabulary of the claims                                                *)

\* the last receive call got a slice from fill_buf and went on to parse it
LastCallParsed ==
    /\ calls > 0
    /\ outcome \in {OkOutcome, PanicOutcome, InvalidCommand}

\* the length field of the header the last receive call saw
DeclaredLength == ReadU16BE(preHead[3], preHead[4])

\* the outcome "not enough bytes buffered yet, call again"
IncompleteOutcome == [tag |-> "incomplete"]

\* the stream holds exactly one frame, written by Client::send for a valid
\* Message
OneValidFrame ==
    /\ Len(log) = 1
    /\ log[1].by = "client"
    /\ is_valid(log[1].msg)

\* every frame of the stream was written by Client::send for a valid Message
AllValidFrames ==
    \A i \in 1..Len(log) : log[i].by = "client" /\ is_valid(log[i].msg)

\* no receive call can deliver anything any more
ServerStopped ==
    \/ outcome = PanicOutcome
    \/ eof /\ source = <<>> /\ rbuf = <<>>

\* the frame of a Message: channel, tag, the low 16 bits of the payload
\* length as two big-endian bytes, payload
FrameOf(msg) ==
    LET cmd == msg.command
        n   == IF cmd.tag = "SetPixelColors" THEN 3 * Len(cmd.pixels)
                                             ELSE 2 + Len(cmd.data)
        payload ==
            IF cmd.tag = "SetPixelColors"
            THEN [i \in 1..n |-> cmd.pixels[(i + 2) \div 3][((i + 2) % 3) + 1]]
            ELSE cmd.id \o cmd.data
    IN  <<msg.channel, IF cmd.tag = "SetPixelColors" THEN 0 ELSE 255,
          (n % 65536) \div 256, n % 256>> \o payload

\* the bytes the step appended to the stream
Appended == DropFirst(source', Len(source))

---------------------------------------------------------------------------
(* C1 *)

\* C1 (round trip): when the bytes Client::send wrote for a valid Message M
\* are the whole input of a Server and its source hands them over without
\* short reads, the first receive call returns Ok and delivers exactly M.
C1_RoundTrip ==
    (OneValidFrame /\ calls = 1 /\ ~short /\ ioErrors = 0)
        => (outcome = OkOutcome /\ delivered = <<log[1].msg>>)

---------------------------------------------------------------------------
(* C2 *)

\* C2 (partial header): a receive call that finds fewer than 4 bytes buffered
\* ends with the incomplete outcome, consumes nothing and delivers nothing.
C2_PartialHeader ==
    (LastCallParsed /\ preLen < HeaderSize)
        => (outcome = IncompleteOutcome /\ consumed = 0 /\ handed = 0)

---------------------------------------------------------------------------
(* C3 *)

\* C3 (partial payload): a receive call that finds a whole header but fewer
\* than 4 + length bytes buffered ends with the incomplete outcome, consumes
\* nothing, delivers nothing and leaves the buffered bytes in place.
C3_PartialPayload ==
    (LastCallParsed /\ preLen >= HeaderSize /\ preLen < HeaderSize + DeclaredLength)
        => (/\ outcome = IncompleteOutcome
            /\ consumed = 0
            /\ handed = 0
            /\ Len(rbuf) = preLen)

---------------------------------------------------------------------------
(* C4 *)

\* C4 (chunking independence): however the bytes of one valid frame are cut
\* into reads, once the Server can make no further delivery it has delivered
\* exactly the frame's Message, as it does when the frame comes in one read.
C4_ChunkingIndependence ==
    (OneValidFrame /\ ioErrors = 0 /\ ServerStopped)
        => delivered = <<log[1].msg>>

---------------------------------------------------------------------------
(* C5 *)

\* C5 (exact consumption): a receive call that returns Ok removes exactly the
\* first 4 + L bytes of the pending input (the buffered bytes followed by the
\* unread ones), L being the length field of the frame it parsed, so that the
\* next call starts at the first byte after the frame.
C5_ExactConsumption ==
    [][(calls' = calls + 1 /\ outcome' = OkOutcome)
        => LET pending == rbuf \o source
               L == ReadU16BE(pending[3], pending[4])
           IN  /\ consumed' = HeaderSize + L
               /\ rbuf' \o source' = DropFirst(pending, HeaderSize + L)]_vars

\* a frame with a payload was consumed while the next frame was already
\* buffered behind it
C5_Witness ==
    /\ outcome = OkOutcome
    /\ consumed > HeaderSize
    /\ rbuf # <<>>

---------------------------------------------------------------------------
(* C6 *)

\* C6 (ordering): on a stream of valid frames F1..Fn, the k-th receive call
\* (k <= n) does not fail, and after it the consumer has been handed exactly
\* the Messages of F1..Fk, in wire order, one per call.
C6_Ordering ==
    (AllValidFrames /\ ioErrors = 0 /\ calls <= Len(log))
        => (/\ outcome # PanicOutcome
            /\ delivered = [i \in 1..calls |-> log[i].msg])

---------------------------------------------------------------------------
(* C7 *)

\* the frame with command 0x01 and length 5
UnknownFrame == <<4, 1, 0, 5, 10, 20, 30, 40, 50>>

\* the stream is UnknownFrame followed by the frame of a valid Message, and
\* the source hands its bytes over without short reads or failures
ResyncScenario ==
    /\ Len(log) = 2
    /\ log[1].by = "peer"
    /\ log[1].bytes = UnknownFrame
    /\ log[2].by = "client"
    /\ is_valid(log[2].msg)
    /\ ~short
    /\ ioErrors = 0

\* C7 (unknown-tag resync): on UnknownFrame followed by a valid frame, the
\* first receive call returns the unrecognized-command error and delivers
\* nothing; once the caller has skipped the announced 4 + 5 bytes, the next
\* receive call returns Ok and delivers the Message of the second frame,
\* leaving no byte behind.
C7_UnknownTagResync ==
    /\ (ResyncScenario /\ calls = 1 /\ skips = 0)
           => (outcome = InvalidCommand /\ delivered = <<>>)
    /\ (ResyncScenario /\ calls = 1 /\ skips = 1)
           => (outcome = SkippedOutcome /\ Len(rbuf) = preLen - Len(UnknownFrame))
    /\ (ResyncScenario /\ calls = 2 /\ skips = 1 /\ outcome # SkippedOutcome)
           => (/\ outcome = OkOutcome
               /\ delivered = <<log[2].msg>>
               /\ rbuf = <<>>
               /\ source = <<>>)

\* the second frame was decoded after the skip
C7_Witness ==
    /\ ResyncScenario
    /\ calls = 2
    /\ skips = 1
    /\ outcome = OkOutcome
    /\ Len(delivered) = 1

---------------------------------------------------------------------------
(* C8 *)

\* C8 (malformed SystemExclusive): a receive call that finds a whole frame
\* with command 0xFF and length 0 or 1 returns an error, without a panic and
\* without a delivery.
C8_MalformedSysEx ==
    (/\ LastCallParsed
     /\ preLen >= HeaderSize
     /\ preLen >= HeaderSize + DeclaredLength
     /\ preHead[2] = SYS_EXCLUSIVE
     /\ DeclaredLength < 2)
        => (outcome.tag = "err" /\ handed = 0)

---------------------------------------------------------------------------
(* C9 *)

\* the last receive call found a whole frame whose command byte is neither
\* 0x00 nor 0xFF
SawUnknownCommand ==
    /\ LastCallParsed
    /\ preLen >= HeaderSize
    /\ preLen >= HeaderSize + DeclaredLength
    /\ preHead[2] \notin {SET_PIXEL_COLORS, SYS_EXCLUSIVE}

\* C9 (unrecognized tag is a distinct error): a receive call that finds a
\* whole frame with an unknown command byte returns the error InvalidData
\* "Invalid Message Command" and hands the consumer nothing; and no other
\* call returns that error: not one on a short or malformed frame, not one
\* whose read failed.
C9_UnknownCommandDistinct ==
    /\ SawUnknownCommand => (outcome = InvalidCommand /\ handed = 0 /\ consumed = 0)
    /\ (calls > 0 /\ outcome = InvalidCommand) => SawUnknownCommand

\* calls that ended each of the ways the error must differ from have been
\* made: this one is the unknown command itself
C9_Witness ==
    /\ outcome = InvalidCommand
    /\ preHead[2] = 1
    /\ ioErrors = 1

---------------------------------------------------------------------------
(* C10 *)

\* C10 (wire layout): Client::send of a valid Message appends to the sink
\* exactly: the channel, the tag (0x00 SetPixelColors, 0xFF SystemExclusive),
\* the payload length as two big-endian bytes, then the payload (R, G, B of
\* each pixel in order; or the two id bytes and the data bytes), and leaves
\* nothing in the writer.  Channel 4 with ten [9,9,9] pixels gives
\* 04 00 00 1E and thirty 09.
C10_WireLayout ==
    [][(Len(log') = Len(log) + 1 /\ log'[Len(log')].by = "client"
            /\ is_valid(log'[Len(log')].msg))
        => LET msg == log'[Len(log')].msg
               cmd == msg.command
               n   == len(msg)
               tag == IF cmd.tag = "SetPixelColors" THEN 0 ELSE 255
               \* byte i of a pixel payload is component ((i + 2) % 3) + 1 of
               \* pixel (i + 2) \div 3
               payload ==
                   IF cmd.tag = "SetPixelColors"
                   THEN [i \in 1..n |->
                            cmd.pixels[(i + 2) \div 3][((i + 2) % 3) + 1]]
                   ELSE cmd.id \o cmd.data
           IN  /\ source' =
                     source \o <<msg.channel, tag, n \div 256, n % 256>> \o payload
               /\ Len(payload) = n
               /\ wbuf' = <<>>
               /\ msg = TenNines =>
                     Appended = <<4, 0, 0, 30>> \o [i \in 1..30 |-> 9]
               /\ msg = TenEights =>
                     Appended = <<4, 255, 0, 12, 0, 0>> \o [i \in 1..10 |-> 8]]_vars

\* a frame longer than the writer's buffer has been sent
C10_Witness ==
    /\ OneValidFrame
    /\ len(log[1].msg) = MAX_MESSAGE_SIZE
    /\ Len(source) = HeaderSize + MAX_MESSAGE_SIZE
    /\ wbuf = <<>>

---------------------------------------------------------------------------
(* C11 *)

\* C11 (truncation on decode): a receive call that returns Ok on a frame
\* with command 0x00 and length field L hands the consumer one Message with
\* the frame's channel and exactly L div 3 pixels, pixel i made of payload
\* bytes 3i-2, 3i-1, 3i; the last L mod 3 payload bytes go into no pixel,
\* and the call still removes all 4 + L bytes from the pending input.
C11_DecodeTruncation ==
    [][(calls' = calls + 1 /\ outcome' = OkOutcome
            /\ (rbuf \o source)[2] = SET_PIXEL_COLORS)
        => LET pending == rbuf \o source
               L == pending[3] * 256 + pending[4]
               pixels == [i \in 1..(L \div 3) |->
                             <<pending[4 + 3 * i - 2],
                               pending[4 + 3 * i - 1],
                               pending[4 + 3 * i]>>]
           IN  /\ handed' = 1
               /\ delivered' =
                     Append(delivered, Message(pending[1], SetPixelColors(pixels)))
               /\ consumed' = 4 + L
               /\ rbuf' \o source' = DropFirst(pending, 4 + L)]_vars

\* a frame of length 5 (3k+2) and one of length 4 (3k+1) have each been
\* decoded to their single whole pixel
C11_Witness ==
    /\ calls = 2
    /\ outcome = OkOutcome
    /\ delivered = <<Message(4, SetPixelColors(<<<<1, 2, 3>>>>)),
                     Message(1, SetPixelColors(<<<<6, 7, 8>>>>))>>
    /\ DeclaredLength = 4
    /\ consumed = 8

---------------------------------------------------------------------------
(* C12 *)

\* the step is a call of Client::send that returned Ok
SendReturnedOk ==
    /\ Len(log') = Len(log) + 1
    /\ log'[Len(log')].by = "client"

\* the Message of the send the step made
SentMessage == log'[Len(log')].msg

\* C12 (length accuracy): for every Message, len() is 3 times the pixel
\* count or 2 plus the data length, and a send that returns Ok has passed
\* the sink a 4-byte header followed by exactly len() payload bytes; for a
\* valid Message the header's length field holds len() as well.
C12_LengthAccuracy ==
    [][SendReturnedOk
        => LET cmd == SentMessage.command
               n   == IF cmd.tag = "SetPixelColors"
                      THEN 3 * Len(cmd.pixels)
                      ELSE 2 + Len(cmd.data)
           IN  /\ len(SentMessage) = n
               /\ Len(wbuf) + Len(Appended) + Len(wbuf') = 4 + n
               /\ wbuf' = <<>>
               /\ n <= 65535 => Appended[3] * 256 + Appended[4] = n]_vars

---------------------------------------------------------------------------
(* C13 *)

\* C13 (oversized send wraps): a send of a Message with len() > 65535 is not
\* refused; it writes len() mod 65536 into the length field and still passes
\* all len() payload bytes to the sink, so the field differs from the
\* payload length.
C13_OversizedWraps ==
    [][(Len(log') = Len(log) + 1 /\ len(SentMessage) > 65535)
        => LET n == len(SentMessage)
           IN  /\ log'[Len(log')].result = OkOutcome
               /\ Appended[3] * 256 + Appended[4] = n % 65536
               /\ Len(Appended) = 4 + n
               /\ Appended[3] * 256 + Appended[4] # Len(Appended) - 4]_vars

---------------------------------------------------------------------------
(* C14 *)

\* C14 (bounded buffering): whatever the length of the stream and however
\* many receive calls have been made, the Server's reader holds at most
\* 65535 bytes, and no receive call has seen more.
C14_BoundedBuffering ==
    /\ Len(rbuf) <= 65535
    /\ preLen <= 65535

\* the reader is full while the stream still has bytes it has not read
C14_Witness ==
    /\ calls > 0
    /\ Len(rbuf) = 65535
    /\ source # <<>>

---------------------------------------------------------------------------
(* C15 *)

\* C15 (I/O failures surface immediately): when a call on the sink fails
\* during a send, send returns that error, the failing call is the last call
\* the send makes on the sink, and what the writer has taken by then (passed
\* on or still buffered) is a beginning of the frame that stops where the
\* failure happened: a failure of the first flush inside the pixel loop
\* leaves the pixels after it unwritten.  A send during which no call fails
\* returns Ok.  When the read of a receive call fails, receive returns that
\* error after that one read, hands the consumer nothing and consumes
\* nothing.
C15_IoFailuresSurface ==
    [][/\ Len(log') = Len(log) + 1
            => LET e     == log'[Len(log')]
                   taken == wbuf \o Appended \o wbuf'
               IN  /\ e.raised = NoOutcome => e.result = OkOutcome
                   /\ e.raised # NoOutcome
                        => /\ e.result = e.raised
                           /\ e.result.tag = "err"
                           /\ e.sinkCalls = e.failedCall
                           /\ Len(taken) <= 4 + len(e.msg)
                           /\ taken = TakeFirst(wbuf \o FrameOf(e.msg), Len(taken))
                   /\ (e.failedCall = 1 /\ e.msg.command.tag = "SetPixelColors"
                            /\ Len(e.msg.command.pixels) = 21845)
                        => Len(taken) = 4 + 3 * 21843
       /\ ioErrors' = ioErrors + 1
            => /\ calls' = calls + 1
               /\ outcome'.tag = "err"
               /\ outcome'.msg = "read"
               /\ outcome'.kind \in ReaderErrorKinds
               /\ handed' = 0
               /\ consumed' = 0
               /\ delivered' = delivered
               /\ rbuf' = rbuf
               /\ source' = source]_vars

\* a send of 21845 pixels has returned the error of the first flush of its
\* pixel loop, one byte of which reached the sink, and a receive call has
\* returned the error of its read
C15_Witness ==
    /\ Len(log) = 1
    /\ log[1].by = "client-error"
    /\ log[1].result = ErrOutcome("TimedOut", "write")
    /\ log[1].failedCall = 1
    /\ log[1].msg.command.tag = "SetPixelColors"
    /\ Len(log[1].msg.command.pixels) = 21845
    /\ Len(wbuf) = 65532
    /\ outcome = ErrOutcome("ConnectionReset", "read")
    /\ ioErrors = 1

---------------------------------------------------------------------------
(* C16 *)

\* the payload byte count of an inspected Message: 3 per pixel, or the id
\* and the data
PayloadBytes(q) ==
    IF q.tag = "SetPixelColors" THEN 3 * q.items ELSE 2 + q.items

\* C16 (validity boundary): is_valid() answers true exactly for the Messages
\* whose payload is at most 65535 bytes: true at 65535, false at 65536 and
\* above, for pixels and for SystemExclusive alike; and len() is that
\* payload byte count.
C16_ValidityBoundary ==
    \A i \in 1..Len(log) :
        log[i].by = "caller"
            => /\ log[i].len = PayloadBytes(log[i])
               /\ log[i].valid = (PayloadBytes(log[i]) <= 65535)
               /\ PayloadBytes(log[i]) = 65535 => log[i].valid
               /\ PayloadBytes(log[i]) >= 65536 => ~log[i].valid

\* is_valid() has answered for a SystemExclusive of exactly 65535 payload
\* bytes and for one of 65536
C16_Witness ==
    /\ Len(log) = 2
    /\ log[1].tag = "SystemExclusive"
    /\ PayloadBytes(log[1]) = 65535
    /\ log[1].valid
    /\ log[2].tag = "SystemExclusive"
    /\ PayloadBytes(log[2]) = 65536
    /\ ~log[2].valid

---------------------------------------------------------------------------
(* C17 *)

\* C17 (broadcast detection): is_broadcast() answers true for channel 0 and
\* false for every other channel, whatever the variant and the payload.
C17_BroadcastDetection ==
    \A i \in 1..Len(log) :
        log[i].by = "caller"
            => /\ log[i].channel = 0 => log[i].broadcast
               /\ log[i].channel \in 1..255 => ~log[i].broadcast

\* is_broadcast() has answered for channel 0 and for channel 1, on Messages
\* of different variants
C17_Witness ==
    /\ Len(log) = 2
    /\ log[1].channel = 0
    /\ log[1].broadcast
    /\ log[2].channel = 1
    /\ ~log[2].broadcast
    /\ log[1].tag # log[2].tag

---------------------------------------------------------------------------
(* C18 *)

\* the frames of the first k entries of the log, one after the other
RECURSIVE FramesOf(_)
FramesOf(k) == IF k = 0 THEN <<>> ELSE FramesOf(k - 1) \o FrameOf(log[k].msg)

\* every entry of the log is a send of a valid Message that returned Ok
AllSendsOk ==
    \A i \in 1..Len(log) :
        /\ log[i].by = "client"
        /\ log[i].result = OkOutcome
        /\ is_valid(log[i].msg)

\* C18 (send sequence): after sends of valid Messages M1..Mn that all
\* returned Ok, the writer's buffer is empty and the sink has received the
\* frames of M1..Mn one after the other in call order, and nothing else
\* (the sink is looked at before the Server has read from it).
C18_SendSequence ==
    (AllSendsOk /\ calls = 0)
        => (wbuf = <<>> /\ source = FramesOf(Len(log)))

\* two different Messages have been sent, a SystemExclusive first
C18_Witness ==
    /\ AllSendsOk
    /\ calls = 0
    /\ Len(log) = 2
    /\ log[1].msg = TenEights
    /\ log[2].msg = TenNines
    /\ Len(source) = 50

---------------------------------------------------------------------------
(* C19 *)

\* C19 (unknown tag makes no progress): a receive call that returns the
\* unrecognized-command error consumes nothing, hands the consumer nothing
\* and leaves every pending byte where it was; and the receive call made
\* next on that Server (the caller not having dropped anything) returns the
\* same error, reads nothing and delivers nothing, so that the frames behind
\* the unknown one are never delivered.
C19_UnknownTagNoProgress ==
    [][/\ (calls' = calls + 1 /\ outcome' = InvalidCommand)
            => /\ consumed' = 0
               /\ handed' = 0
               /\ delivered' = delivered
               /\ rbuf' \o source' = rbuf \o source
               /\ Len(rbuf') = preLen'
       /\ (calls' = calls + 1 /\ outcome = InvalidCommand)
            => /\ outcome' = InvalidCommand
               /\ rbuf' = rbuf
               /\ source' = source
               /\ delivered' = delivered]_vars

\* three receive calls in a row have returned the error on the unknown frame
\* while a valid frame waits behind it
C19_Witness ==
    /\ Len(log) = 2
    /\ log[1].by = "peer"
    /\ log[1].bytes = UnknownFrame
    /\ log[2].by = "client"
    /\ calls = 3
    /\ skips = 0
    /\ ioErrors = 0
    /\ outcome = InvalidCommand
    /\ delivered = <<>>
    /\ Len(rbuf) + Len(source) = Len(UnknownFrame) + Len(FrameOf(log[2].msg))

---------------------------------------------------------------------------
(* C20 *)

\* C20 (consumer result is ignored): a receive call that handed a Message to
\* read_msg returns Ok and consumes the frame's 4 + length bytes whatever
\* read_msg returned, Ok or Err; the consumer's error is not what receive
\* returns, and the frame is gone from the buffer, so it is not delivered
\* again.
C20_ConsumerResultIgnored ==
    (calls > 0 /\ devResult # NoOutcome)
        => /\ handed = 1
           /\ outcome = OkOutcome
           /\ consumed = 4 + DeclaredLength
           /\ Len(rbuf) = preLen - consumed

\* read_msg returned Err for the second of two frames, each delivered once
C20_Witness ==
    /\ devResult = ErrOutcome("Other", "device")
    /\ outcome = OkOutcome
    /\ AllSendsOk
    /\ Len(log) = 2
    /\ calls = 2
    /\ delivered = <<log[1].msg, log[2].msg>>
    /\ rbuf = <<>>
    /\ source = <<>>

====
